---- MODULE Spec2Model ----
(***************************************************************************)
(* Request-handling pipeline of the static file server in src/main.rs.    *)
(*                                                                         *)
(* One request at a time travels through the middleware stack built in    *)
(* main (lines 654-720).  actix-web runs the middleware registered last   *)
(* first, so the order of execution is                                    *)
(*   Logger -> Condition(HttpAuthentication) -> Compress -> wrap_fn       *)
(*          -> fs::Files (render_index / NamedFile / default_handler)     *)
(* and the response travels back through the same layers in reverse.      *)
(* Strings are sequences of bytes, so that prefix tests, percent decoding *)
(* and the derived orderings are computed as the code computes them.      *)
(***************************************************************************)
EXTENDS Integers, Sequences, FiniteSets, TLC

\* Longest request path, in segments, that the model enumerates.
MaxSegs == 2

----------------------------------------------------------------------------
(* Names, as UTF-8 bytes *)

NameA == <<65>>                                        \* "A"   (directory)
NameC == <<67>>                                        \* "C"   (directory)
NameLowA == <<97>>                                     \* "a"   (file)
NameLowB == <<98>>                                     \* "b"   (file)
NameHidden == <<46, 115>>                              \* ".s"  (file)
NameIndex == <<105, 110, 100, 101, 120, 46, 104, 116, 109, 108>>  \* "index.html"
NameNone == <<122>>                                    \* "z"   (never exists)
SegParent == <<46, 46>>                                \* ".."
SegEncHidden == <<37, 50, 69, 115>>                    \* "%2Es"

\* The raw (undecoded) segments a request path is built from.
Segments == {NameA, NameHidden, SegEncHidden, SegParent, NameNone}

\* Request paths: "/" followed by the segments joined with "/".
RECURSIVE SeqsUpTo(_, _)
SeqsUpTo(S, n) ==
  IF n = 0 THEN {<< >>}
  ELSE LET shorter == SeqsUpTo(S, n - 1)
       IN  shorter \cup {Append(p, s) : p \in {q \in shorter : Len(q) = n - 1}, s \in S}

Paths == SeqsUpTo(Segments, MaxSegs)

\* str::starts_with('.')
starts_with_dot(s) == Len(s) > 0 /\ s[1] = 46

\* Value of an ASCII hex digit, -1 when the byte is none.
HexVal(b) ==
  IF b >= 48 /\ b <= 57 THEN b - 48
  ELSE IF b >= 65 /\ b <= 70 THEN b - 55
  ELSE IF b >= 97 /\ b <= 102 THEN b - 87
  ELSE -1

\* Percent decoding of one segment: %XY becomes the byte 16*X+Y, anything
\* else is copied.
RECURSIVE percent_decode(_)
percent_decode(s) ==
  IF s = << >> THEN << >>
  ELSE IF s[1] = 37 /\ Len(s) >= 3 /\ HexVal(s[2]) >= 0 /\ HexVal(s[3]) >= 0
       THEN <<16 * HexVal(s[2]) + HexVal(s[3])>> \o percent_decode(SubSeq(s, 4, Len(s)))
       ELSE <<s[1]>> \o percent_decode(Tail(s))

\* Lexicographic order of byte strings (Ord for String).
RECURSIVE BytesLess(_, _)
BytesLess(x, y) ==
  IF y = << >> THEN FALSE
  ELSE IF x = << >> THEN TRUE
  ELSE IF x[1] # y[1] THEN x[1] < y[1]
  ELSE BytesLess(Tail(x), Tail(y))

----------------------------------------------------------------------------
(* The served tree *)

\* Paths below the root that can exist; the two index.html files come and go.
StaticPaths == {<<NameA>>, <<NameC>>, <<NameLowA>>, <<NameLowB>>, <<NameHidden>>,
                <<NameA, NameLowB>>}
RootIndex == <<NameIndex>>
SubIndex == <<NameA, NameIndex>>
Trees == {StaticPaths \cup extra : extra \in SUBSET {RootIndex, SubIndex}}

Directories == {<< >>, <<NameA>>, <<NameC>>}

exists(tree, p) == p = << >> \/ p \in tree
is_dir(tree, p) == exists(tree, p) /\ p \in Directories
is_file(tree, p) == exists(tree, p) /\ p \notin Directories

\* Immediate children of a directory, by name.
Children(tree, d) ==
  {p[Len(p)] : p \in {q \in tree : Len(q) = Len(d) + 1 /\ SubSeq(q, 1, Len(d)) = d}}

\* std::fs metadata of a path: formatted modification time
\* "[year]/[month]/[day] [hour]:[minute]:[second]" (zero padded, so the string
\* order is the order of the fields) and length in bytes.
Modified(p) == IF Len(p) = 1 /\ p[1] \in {NameA, NameLowB} THEN <<2022, 3, 1, 10, 0, 0>>
               ELSE <<2022, 1, 15, 8, 30, 0>>
FileLen(p) == 10 * Len(p) + Len(p[Len(p)])

----------------------------------------------------------------------------
(* Configuration: main(), lines 408-445 *)

Unset == "<unset>"
EnvNames == {"NOINDEX", "SPA", "DOTFILES", "NOCACHE", "ENABLE_AUTH", "AUTH_USERNAME",
             "AUTH_PASSWORD", "ENABLE_CORS", "CORS"}

\* bool::to_string
BoolStr(b) == IF b THEN "true" ELSE "false"

\* sha2::Sha512 followed by format!("{:?}"): a deterministic digest, distinct
\* for the distinct inputs of the model.
Passwords == {"", "pass", "wrong"}
Sha512 == [p \in Passwords |->
            CASE p = "" -> "[207, 131, 225, 53, ..]"
              [] p = "pass" -> "[91, 114, 47, 172, ..]"
              [] p = "wrong" -> "[61, 247, 8, 39, ..]"]
hash(from) == Sha512[from]

NoAuth == << >>
NoCors == "<no --cors>"
CorsNoValue == "<--cors>"
Origin == "https://example.com"
AuthArgs == {NoAuth, <<"user", "pass">>}
CorsArgs == {NoCors, CorsNoValue, Origin}

\* The environment after main has stored the command line in it.
SetEnv(noindex, spa, dotfiles, nocache, auth, cors) ==
  [n \in EnvNames |->
     CASE n = "NOINDEX" -> BoolStr(noindex)
       [] n = "SPA" -> BoolStr(spa)
       [] n = "DOTFILES" -> BoolStr(dotfiles)
       [] n = "NOCACHE" -> BoolStr(nocache)
       [] n = "ENABLE_AUTH" -> IF auth = NoAuth THEN Unset ELSE "true"
       [] n = "AUTH_USERNAME" -> IF auth = NoAuth THEN Unset ELSE auth[1]
       [] n = "AUTH_PASSWORD" -> IF auth = NoAuth THEN Unset ELSE hash(auth[2])
       [] n = "ENABLE_CORS" -> IF cors = NoCors THEN Unset ELSE "true"
       [] n = "CORS" -> IF cors = NoCors THEN Unset
                        ELSE IF cors = CorsNoValue THEN "*" ELSE cors]

Configs == {SetEnv(ni, sp, df, nc, au, co) :
              ni \in BOOLEAN, sp \in BOOLEAN, df \in BOOLEAN, nc \in BOOLEAN,
              au \in AuthArgs, co \in CorsArgs}

----------------------------------------------------------------------------
(* Requests and responses *)

NoCreds == [header |-> "absent"]
Credentials == {NoCreds,
                [user_id |-> "user", password |-> "pass"],
                [user_id |-> "user", password |-> "wrong"],
                [user_id |-> "other", password |-> "pass"]}

HeaderNames == {"content-type", "cache-control", "access-control-allow-origin",
                "www-authenticate"}
NoHeader == "<absent>"
NoHeaders == [h \in HeaderNames |-> NoHeader]
insert(headers, name, value) == [headers EXCEPT ![name] = value]

EmptyBody == [kind |-> "empty"]
FileBody(p) == [kind |-> "file", path |-> p]
NoResponse == [status |-> 0, headers |-> NoHeaders, body |-> EmptyBody]
NoRequest == [path |-> << >>, auth |-> NoCreds]

\* HttpResponse::NotFound().body("")
NotFound == [status |-> 404, headers |-> NoHeaders, body |-> EmptyBody]

\* Response of ResponseError for std::io::Error of kind NotFound.
IoNotFound == [status |-> 404,
               headers |-> insert(NoHeaders, "content-type", "text/plain; charset=utf-8"),
               body |-> [kind |-> "error", text |-> "No such file or directory"]]

HtmlUtf8 == "text/html; charset=utf-8"

\* Response of ResponseError for a std::io::Error of any other kind.
InternalError == [status |-> 500,
                  headers |-> insert(NoHeaders, "content-type", "text/plain; charset=utf-8"),
                  body |-> [kind |-> "error", text |-> "io::Error"]]

\* Lines 291-296 when the template fails: 200 with the literal.
RenderError == [status |-> 200,
                headers |-> insert(NoHeaders, "content-type", HtmlUtf8),
                body |-> [kind |-> "error", text |-> "TEMPLATE RENDER ERROR"]]

\* Path::extension: the bytes after the last '.', none for a leading '.'.
RECURSIVE LastDot(_, _)
LastDot(name, i) == IF i <= 1 THEN 0 ELSE IF name[i] = 46 THEN i ELSE LastDot(name, i - 1)
extension(name) ==
  IF LastDot(name, Len(name)) = 0 THEN << >>
  ELSE SubSeq(name, LastDot(name, Len(name)) + 1, Len(name))

ExtHtml == <<104, 116, 109, 108>>

\* NamedFile::open(..).into_response: 200, the content type guessed from the
\* extension, the file's bytes.
NamedFile(p) ==
  [status |-> 200,
   headers |-> insert(NoHeaders, "content-type",
                 IF extension(p[Len(p)]) = ExtHtml THEN HtmlUtf8
                 ELSE "application/octet-stream"),
   body |-> FileBody(p)]

----------------------------------------------------------------------------
(* Path handling *)

\* std::env::var(name).unwrap_or_else(|_| default)
var(e, name, default) == IF e[name] = Unset THEN default ELSE e[name]

\* wrap_fn, lines 657-663: the components of PathBuf::from_str(req.path()),
\* taken from the path as received, flag the request when one starts with '.'.
isdotfileOf(path) == \E i \in 1..Len(path) : starts_with_dot(path[i])

\* fs::Files, line 695: the path below the root that a request path names.
\* The path is percent-decoded, then walked segment by segment; ".." drops
\* the last component pushed so far (nothing at the root), any other segment
\* is pushed.  use_hidden_files() (line 696) lets segments start with '.'.
RECURSIVE walk(_, _)
walk(buf, segs) ==
  IF segs = << >> THEN buf
  ELSE LET seg == percent_decode(segs[1])
       IN  IF seg = SegParent
           THEN walk(IF buf = << >> THEN buf ELSE SubSeq(buf, 1, Len(buf) - 1), Tail(segs))
           ELSE walk(Append(buf, seg), Tail(segs))
\* A resolver that keeps ".." as a component instead of dropping one.
RECURSIVE walkKeepingParent(_, _)
walkKeepingParent(buf, segs) ==
  IF segs = << >> THEN buf
  ELSE walkKeepingParent(Append(buf, percent_decode(segs[1])), Tail(segs))
path_on_diskKeepingParent(path) == walkKeepingParent(<< >>, path)
path_on_disk(path) == walk(<< >>, path)

\* Whether a ".." of the path climbs above the root.
RECURSIVE climbs(_, _)
climbs(depth, segs) ==
  IF segs = << >> THEN FALSE
  ELSE IF percent_decode(segs[1]) = SegParent
       THEN depth = 0 \/ climbs(depth - 1, Tail(segs))
       ELSE climbs(depth + 1, Tail(segs))
EscapesRoot(path) == climbs(0, path)

----------------------------------------------------------------------------
(* Directory listing: render_index, lines 208-298 *)

TypeBytes(t) == IF t = "code" THEN <<99, 111, 100, 101>> ELSE <<102, 105, 108, 101>>

\* get_file_type, lines 37-153, for the names of the model: "html" is in the
\* table as "code", a name without extension is "file".
get_file_type(name) == IF extension(name) = ExtHtml THEN "code" ELSE "file"

Dir(d, name) == [name |-> name, modified |-> Modified(Append(d, name))]
File(d, name) == [name |-> name, size |-> FileLen(Append(d, name)),
                  filetype |-> get_file_type(name), modified |-> Modified(Append(d, name))]

\* #[derive(Ord)] compares the fields in the order they are declared:
\* Dir by (name, modified), File by (name, size, filetype, modified).
Key(e) == IF "size" \in DOMAIN e
          THEN <<e.name, <<e.size>>, TypeBytes(e.filetype), e.modified>>
          ELSE <<e.name, e.modified>>

RECURSIVE KeyLess(_, _)
KeyLess(k, l) ==
  IF k = << >> \/ l = << >> THEN FALSE
  ELSE IF k[1] # l[1] THEN BytesLess(k[1], l[1])
  ELSE KeyLess(Tail(k), Tail(l))

RECURSIVE place(_, _)
place(sorted, e) ==
  IF sorted = << >> THEN <<e>>
  ELSE IF KeyLess(Key(e), Key(sorted[1])) THEN <<e>> \o sorted
  ELSE <<sorted[1]>> \o place(Tail(sorted), e)

\* Vec::sort
sortLeftOut(v) == v
RECURSIVE sort(_)
sort(v) == IF v = << >> THEN << >> ELSE place(sort(SubSeq(v, 1, Len(v) - 1)), v[Len(v)])

\* The orders in which read_dir may hand out the children of a directory.
Enumerations(names) ==
  {o \in [1..Cardinality(names) -> names] : \A i, j \in 1..Cardinality(names) : i # j => o[i] # o[j]}

\* The loop of lines 229-277 over the entries in the order read_dir gives them.
RECURSIVE collect(_, _, _, _)
collect(tree, d, order, show_dot_files) ==
  IF order = << >> THEN [dirs |-> << >>, files |-> << >>]
  ELSE LET rest == collect(tree, d, SubSeq(order, 1, Len(order) - 1), show_dot_files)
           name == order[Len(order)]
       IN  IF ~show_dot_files /\ starts_with_dot(name) THEN rest
           ELSE IF is_dir(tree, Append(d, name))
                THEN [rest EXCEPT !.dirs = Append(@, Dir(d, name))]
                ELSE [rest EXCEPT !.files = Append(@, File(d, name))]

\* The loop with entries whose name, metadata or modified time cannot be read
\* giving up on everything collected so far.
RECURSIVE collect_entriesAborting(_, _, _, _, _)
collect_entriesAborting(tree, d, order, show_dot_files, bad) ==
  IF order = << >> THEN [dirs |-> << >>, files |-> << >>]
  ELSE LET rest == collect_entriesAborting(tree, d, SubSeq(order, 1, Len(order) - 1),
                                           show_dot_files, bad)
           name == order[Len(order)]
       IN  IF name \in bad THEN [dirs |-> << >>, files |-> << >>]
           ELSE IF ~show_dot_files /\ starts_with_dot(name) THEN rest
           ELSE IF is_dir(tree, Append(d, name))
                THEN [rest EXCEPT !.dirs = Append(@, Dir(d, name))]
                ELSE [rest EXCEPT !.files = Append(@, File(d, name))]

\* The loop of lines 229-277 when reading the name (237-243), the metadata
\* (247-253) or the modified time (254-264) of the entries in bad fails: each
\* takes the continue of its match and the loop goes on.
RECURSIVE collect_entries(_, _, _, _, _)
collect_entries(tree, d, order, show_dot_files, bad) ==
  IF order = << >> THEN [dirs |-> << >>, files |-> << >>]
  ELSE LET rest == collect_entries(tree, d, SubSeq(order, 1, Len(order) - 1),
                                   show_dot_files, bad)
           name == order[Len(order)]
       IN  IF name \in bad THEN rest
           ELSE IF ~show_dot_files /\ starts_with_dot(name) THEN rest
           ELSE IF is_dir(tree, Append(d, name))
                THEN [rest EXCEPT !.dirs = Append(@, Dir(d, name))]
                ELSE [rest EXCEPT !.files = Append(@, File(d, name))]

\* Lines 215-223: the decoded, non-empty segments of the request path.
breadcrumb(path) == [i \in 1..Len(path) |-> percent_decode(path[i])]

\* The IndexContext handed to the template (lines 209-282).
IndexContext(tree, d, path, order, show_dot_files) ==
  LET got == collect(tree, d, order, show_dot_files)
      paths == breadcrumb(path)
  IN  [title |-> IF paths = << >> THEN <<47>> ELSE paths[Len(paths)],
       paths |-> paths,
       dirs |-> sort(got.dirs),
       files |-> sort(got.files)]

\* The IndexContext when some entries cannot be read.
IndexContextSkipping(tree, d, path, order, show_dot_files, bad) ==
  LET got == collect_entries(tree, d, order, show_dot_files, bad)
      paths == breadcrumb(path)
  IN  [title |-> IF paths = << >> THEN <<47>> ELSE paths[Len(paths)],
       paths |-> paths,
       dirs |-> sort(got.dirs),
       files |-> sort(got.files)]

\* templates/index.html.tera: the rows of the page, directories first.
render(context) ==
  [title |-> context.title, paths |-> context.paths, rows |-> context.dirs \o context.files]

Listing(context) ==
  [status |-> 200,
   headers |-> insert(NoHeaders, "content-type", HtmlUtf8),
   body |-> [kind |-> "listing", page |-> render(context)]]

----------------------------------------------------------------------------
(* State *)

VARIABLES
  env,        \* the process environment that main fills and the handlers read
  tree,       \* the paths that exist below the root
  pc,         \* where the request in flight is in the middleware stack
  req,        \* the request in flight: raw path segments and credentials
  isdotfile,  \* the flag wrap_fn computes before it calls the inner service
  target,     \* the path on disk fs::Files resolved the request to
  served,     \* the response the fs::Files service returned
  res,        \* the response that leaves the server
  svcErr,     \* the response travels as Err(actix_web::Error), not Ok(response)
  fsOps,      \* the filesystem calls made for this request, failures marked
  logged      \* the status codes of the access-log records of this request

vars == <<env, tree, pc, req, isdotfile, target, served, res, svcErr, fsOps, logged>>

Init ==
  /\ env \in Configs
  /\ tree \in Trees
  /\ pc = "idle"
  /\ req = NoRequest
  /\ isdotfile = FALSE
  /\ target = << >>
  /\ served = NoResponse
  /\ res = NoResponse
  /\ svcErr = FALSE
  /\ fsOps = {}
  /\ logged = << >>

\* A request arrives; Logger (line 694), the outermost layer, hands it on.
Receive(path, auth) ==
  /\ pc = "idle"
  /\ req' = [path |-> path, auth |-> auth]
  /\ pc' = "auth"
  /\ UNCHANGED <<env, tree, isdotfile, target, served, res, svcErr, fsOps, logged>>

\* validator, lines 322-331: the test that lets a request through.
validatorEither(e, auth) ==
  \/ auth.user_id = var(e, "AUTH_USERNAME", "")
  \/ hash(auth.password) = var(e, "AUTH_PASSWORD", "")
validator(e, auth) ==
  /\ auth.user_id = var(e, "AUTH_USERNAME", "")
  /\ hash(auth.password) = var(e, "AUTH_PASSWORD", "")

\* The 401 of AuthenticationError with the given challenge.
Unauthorized(challenge) ==
  [status |-> 401, headers |-> insert(NoHeaders, "www-authenticate", challenge),
   body |-> EmptyBody]

Realm == "Basic realm=\"Incorrect username or password\""

\* An authentication layer that records the 401 but still calls the inner
\* service.
AuthGateCallsInner ==
  /\ pc = "auth"
  /\ IF var(env, "ENABLE_AUTH", "false") # "true"
     THEN UNCHANGED <<res, svcErr>>
     ELSE IF req.auth = NoCreds
     THEN res' = Unauthorized("Basic") /\ svcErr' = FALSE
     ELSE IF validator(env, req.auth)
     THEN UNCHANGED <<res, svcErr>>
     ELSE res' = Unauthorized(Realm) /\ svcErr' = TRUE
  /\ pc' = "wrap_fn"
  /\ UNCHANGED <<env, tree, req, isdotfile, target, served, fsOps, logged>>

\* Condition(ENABLE_AUTH, HttpAuthentication::basic(validator)), lines 690-693.
\* Without credentials the extractor fails and the middleware answers 401
\* itself, as an Ok response.  The error of the validator (line 338) leaves
\* the middleware as Err.  Either way the inner layers are not called.
AuthGate ==
  /\ pc = "auth"
  /\ IF var(env, "ENABLE_AUTH", "false") # "true"
     THEN pc' = "wrap_fn" /\ UNCHANGED <<res, svcErr>>
     ELSE IF req.auth = NoCreds
     THEN /\ res' = Unauthorized("Basic")
          /\ svcErr' = FALSE
          /\ pc' = "logger"
     ELSE IF validator(env, req.auth)
     THEN pc' = "wrap_fn" /\ UNCHANGED <<res, svcErr>>
     ELSE /\ res' = Unauthorized(Realm)
          /\ svcErr' = TRUE
          /\ pc' = "logger"
  /\ UNCHANGED <<env, tree, req, isdotfile, target, served, fsOps, logged>>

\* wrap_fn, lines 656-664, on the way in (Compress, line 689, passes the
\* request through).
WrapFn ==
  /\ pc = "wrap_fn"
  /\ isdotfile' = isdotfileOf(req.path)
  /\ pc' = "files"
  /\ UNCHANGED <<env, tree, req, target, served, res, svcErr, fsOps, logged>>

\* fs::Files::new("/", ROOT), lines 695-699: resolve the path below the root
\* and dispatch on what is there.
FilesService ==
  /\ pc = "files"
  /\ LET p == path_on_disk(req.path)
     IN  /\ target' = p
         /\ fsOps' = fsOps \cup {<<"canonicalize", p>>}
         /\ pc' = IF ~exists(tree, p) THEN "default_handler"
                  ELSE IF is_dir(tree, p) THEN "render_index"
                  ELSE "named_file"
  /\ UNCHANGED <<env, tree, req, isdotfile, served, res, svcErr, logged>>

\* A regular file: fs::Files opens and serves it; a failed open goes to the
\* default handler.
ServeFile ==
  /\ pc = "named_file"
  /\ fsOps' = fsOps \cup {<<"open", target>>}
  /\ IF is_file(tree, target)
     THEN served' = NamedFile(target) /\ pc' = "map_body"
     ELSE served' = served /\ pc' = "default_handler"
  /\ UNCHANGED <<env, tree, req, isdotfile, target, res, svcErr, logged>>

\* The head of render_index with the two tests in the other order.
render_index_headNoindexFirst(e, t, d) ==
  IF var(e, "NOINDEX", "false") = "true" THEN "not_found"
  ELSE IF exists(t, Append(d, NameIndex)) /\ is_file(t, Append(d, NameIndex)) THEN "open_index"
  ELSE "list"

\* The head of render_index without the NOINDEX test.
render_index_headAlwaysLists(e, t, d) ==
  IF exists(t, Append(d, NameIndex)) /\ is_file(t, Append(d, NameIndex)) THEN "open_index"
  ELSE "list"

\* render_index, lines 194-207: serve the directory's index.html if there is
\* one, else answer 404 if NOINDEX is set, else list the directory.
render_index_head(e, t, d) ==
  IF exists(t, Append(d, NameIndex)) /\ is_file(t, Append(d, NameIndex)) THEN "open_index"
  ELSE IF var(e, "NOINDEX", "false") = "true" THEN "not_found"
  ELSE "list"

\* render_index, lines 208-298: the listing, from the entries in the order
\* read_dir hands them out.
render_index_list(e, t, d, path, order) ==
  Listing(IndexContext(t, d, path, order, var(e, "DOTFILES", "false") = "true"))

\* fs::Files calls the files_listing_renderer (line 699) for a directory.
RenderIndex ==
  /\ pc = "render_index"
  /\ LET head == render_index_head(env, tree, target)
         index == Append(target, NameIndex)
     IN  IF head = "open_index"
         THEN /\ pc' = "open_index"
              /\ served' = served
              /\ fsOps' = fsOps \cup {<<"stat", index>>}
         ELSE IF head = "not_found"
         THEN /\ pc' = "map_body"
              /\ served' = NotFound
              /\ fsOps' = fsOps \cup {<<"stat", index>>}
         ELSE /\ pc' = "map_body"
              /\ \E order \in Enumerations(Children(tree, target)) :
                   served' = render_index_list(env, tree, target, req.path, order)
              /\ fsOps' = fsOps \cup {<<"stat", index>>, <<"read_dir", target>>}
  /\ UNCHANGED <<env, tree, req, isdotfile, target, res, svcErr, logged>>

\* An open of index.html whose failure is answered as a server error.
OpenIndexServerError ==
  /\ pc = "open_index"
  /\ LET index == Append(target, NameIndex)
     IN  /\ fsOps' = fsOps \cup {<<IF is_file(tree, index) THEN "open" ELSE "open_failed", index>>}
         /\ served' = IF is_file(tree, index)
                      THEN [NamedFile(index) EXCEPT !.headers = insert(@, "content-type", HtmlUtf8)]
                      ELSE InternalError
  /\ pc' = "map_body"
  /\ UNCHANGED <<env, tree, req, isdotfile, target, res, svcErr, logged>>

\* Lines 197-200: NamedFile::open(index)?.set_content_type(TEXT_HTML_UTF_8);
\* an open error becomes the response of the io::Error.
OpenIndex ==
  /\ pc = "open_index"
  /\ LET index == Append(target, NameIndex)
     IN  /\ fsOps' = fsOps \cup {<<IF is_file(tree, index) THEN "open" ELSE "open_failed", index>>}
         /\ served' = IF is_file(tree, index)
                      THEN [NamedFile(index) EXCEPT !.headers = insert(@, "content-type", HtmlUtf8)]
                      ELSE IoNotFound
  /\ pc' = "map_body"
  /\ UNCHANGED <<env, tree, req, isdotfile, target, res, svcErr, logged>>

\* A default handler that falls back to index.html whatever SPA says.
default_handlerAlwaysFallsBack(e, t) ==
  IF exists(t, RootIndex) /\ is_file(t, RootIndex)
  THEN [pc |-> "open_spa", served |-> NoResponse]
  ELSE [pc |-> "map_body", served |-> NotFound]

\* default_handler, lines 700-717, up to the open of ROOT/index.html.
default_handler(e, t) ==
  IF /\ exists(t, RootIndex)
     /\ is_file(t, RootIndex)
     /\ var(e, "SPA", "false") = "true"
  THEN [pc |-> "open_spa", served |-> NoResponse]
  ELSE [pc |-> "map_body", served |-> NotFound]

\* fs::Files calls the default handler when the path names nothing.
DefaultHandler ==
  /\ pc = "default_handler"
  /\ fsOps' = fsOps \cup {<<"stat", RootIndex>>}
  /\ pc' = default_handler(env, tree).pc
  /\ served' = default_handler(env, tree).served
  /\ UNCHANGED <<env, tree, req, isdotfile, target, res, svcErr, logged>>

\* Line 710: fs::NamedFile::open(path)?.into_response(..); the ? returns the
\* open error from the service as Err, past map_body.
OpenSpa ==
  /\ pc = "open_spa"
  /\ fsOps' = fsOps \cup {<<IF is_file(tree, RootIndex) THEN "open" ELSE "open_failed", RootIndex>>}
  /\ IF is_file(tree, RootIndex)
     THEN /\ served' = NamedFile(RootIndex)
          /\ pc' = "map_body"
          /\ UNCHANGED <<res, svcErr>>
     ELSE /\ served' = served
          /\ res' = IoNotFound
          /\ svcErr' = TRUE
          /\ pc' = "logger"
  /\ UNCHANGED <<env, tree, req, isdotfile, target, logged>>

\* A closure that shapes the headers and hands the body on untouched.
map_bodyKeepingBody(e, dot, response) ==
  LET h1 == IF var(e, "NOCACHE", "false") = "true"
            THEN insert(response.headers, "cache-control", "no-store")
            ELSE response.headers
      h2 == IF var(e, "ENABLE_CORS", "false") = "true"
            THEN insert(h1, "access-control-allow-origin", var(e, "CORS", "*"))
            ELSE h1
  IN  [status |-> response.status, headers |-> h2, body |-> response.body]

\* The closure given to map_body, lines 666-686.  It may change the headers
\* of the head it is handed and returns the body of the response; the body
\* it returns for a flagged request is that of a fresh, empty response.
map_body(e, dot, response) ==
  LET h1 == IF var(e, "NOCACHE", "false") = "true"
            THEN insert(response.headers, "cache-control", "no-store")
            ELSE response.headers
      h2 == IF var(e, "ENABLE_CORS", "false") = "true"
            THEN insert(h1, "access-control-allow-origin", var(e, "CORS", "*"))
            ELSE h1
  IN  [status |-> response.status,
       headers |-> h2,
       body |-> IF dot /\ var(e, "DOTFILES", "false") # "true"
                THEN EmptyBody
                ELSE response.body]

\* wrap_fn on the way out, lines 665-687.
MapBody ==
  /\ pc = "map_body"
  /\ res' = map_body(env, isdotfile, served)
  /\ pc' = "logger"
  /\ UNCHANGED <<env, tree, req, isdotfile, target, served, svcErr, fsOps, logged>>

\* middleware::Logger, line 694, on the way out: a record with the status
\* (%s) for a response it is handed; an Err of the inner layers passes
\* through it unrecorded and is turned into the response by the server.
Logger ==
  /\ pc = "logger"
  /\ logged' = IF svcErr THEN logged ELSE Append(logged, res.status)
  /\ pc' = "done"
  /\ UNCHANGED <<env, tree, req, isdotfile, target, served, res, svcErr, fsOps>>

\* The response has been written; the connection takes the next request.
Finish ==
  /\ pc = "done"
  /\ pc' = "idle"
  /\ req' = NoRequest
  /\ isdotfile' = FALSE
  /\ target' = << >>
  /\ served' = NoResponse
  /\ res' = NoResponse
  /\ svcErr' = FALSE
  /\ fsOps' = {}
  /\ logged' = << >>
  /\ UNCHANGED <<env, tree>>

\* Another process adds or removes an index.html while no request is in
\* flight.
TreeChange ==
  /\ pc = "idle"
  /\ \E t \in Trees \ {tree} : tree' = t
  /\ UNCHANGED <<env, pc, req, isdotfile, target, served, res, svcErr, fsOps, logged>>

Next ==
  \/ \E path \in Paths, auth \in Credentials : Receive(path, auth)
  \/ AuthGate
  \/ WrapFn
  \/ FilesService
  \/ ServeFile
  \/ RenderIndex
  \/ OpenIndex
  \/ DefaultHandler
  \/ OpenSpa
  \/ MapBody
  \/ Logger
  \/ Finish
  \/ TreeChange

Spec == Init /\ [][Next]_vars

----------------------------------------------------------------------------
(* Failures while a listing is built *)

DocErrors == {"serialize_error", "render_error"}

\* Lines 283-297: the end of render_index when building the document fails.
\* A failure of Context::from_serialize is returned as Err(io::Error of kind
\* Other) (line 288), which fs::Files turns into the response of that error;
\* a failure of TEMPLATE.render is replaced by the literal (line 293).
render_index_end(fault) ==
  IF fault = "serialize_error" THEN InternalError ELSE RenderError

\* One order in which fs::read_dir may yield the names.
RECURSIVE read_dir(_)
read_dir(names) ==
  IF names = {} THEN << >>
  ELSE LET name == CHOOSE n \in names : TRUE
       IN  <<name>> \o read_dir(names \ {name})

\* render_index, lines 224-282, with entries that cannot be read: the name
\* (line 239), the metadata (line 249) or the modified time (line 260) of the
\* entries in bad is an error.  The order of read_dir is one of the orders
\* RenderIndex goes through.
RenderIndexEntryErrors ==
  /\ pc = "render_index"
  /\ render_index_head(env, tree, target) = "list"
  /\ LET order == read_dir(Children(tree, target))
     IN  \E bad \in SUBSET Children(tree, target) \ {{}} :
           /\ served' = Listing(IndexContextSkipping(tree, target, req.path, order,
                                   var(env, "DOTFILES", "false") = "true", bad))
           /\ fsOps' = fsOps \cup {<<"stat", Append(target, NameIndex)>>, <<"read_dir", target>>}
                             \cup {<<"entry_error", Append(target, name)>> : name \in bad}
  /\ pc' = "map_body"
  /\ UNCHANGED <<env, tree, req, isdotfile, target, res, svcErr, logged>>

\* render_index, lines 283-297, with a document that cannot be built.
RenderIndexDocError ==
  /\ pc = "render_index"
  /\ render_index_head(env, tree, target) = "list"
  /\ \E fault \in DocErrors :
       /\ served' = render_index_end(fault)
       /\ fsOps' = fsOps \cup {<<"stat", Append(target, NameIndex)>>, <<"read_dir", target>>,
                                <<fault, target>>}
  /\ pc' = "map_body"
  /\ UNCHANGED <<env, tree, req, isdotfile, target, res, svcErr, logged>>

NextFaults == Next \/ RenderIndexEntryErrors \/ RenderIndexDocError

SpecFaults == Init /\ [][NextFaults]_vars

----------------------------------------------------------------------------
(* Another process removing a file under a request *)

\* Between the exists/is_file test (lines 196, 706-707) and the open (197,
\* 710) the index.html about to be opened is removed.  A removal earlier in
\* the request is the same as the request starting on the smaller tree.
RaceRemove ==
  /\ pc \in {"open_index", "open_spa"}
  /\ LET index == IF pc = "open_spa" THEN RootIndex ELSE Append(target, NameIndex)
     IN  /\ index \in tree
         /\ tree' = tree \ {index}
  /\ UNCHANGED <<env, pc, req, isdotfile, target, served, res, svcErr, fsOps, logged>>

NextRace == Next \/ RaceRemove

SpecRace == Init /\ [][NextRace]_vars

TypeOK ==
  /\ env \in Configs
  /\ tree \in Trees
  /\ pc \in {"idle", "auth", "wrap_fn", "files", "named_file", "render_index", "open_index",
             "default_handler", "open_spa", "map_body", "logger", "done"}
  /\ req.path \in Paths
  /\ req.auth \in Credentials
  /\ isdotfile \in BOOLEAN
  /\ res.status \in {0, 200, 401, 404, 500}
  /\ served.status \in {0, 200, 404, 500}
  /\ svcErr \in BOOLEAN
  /\ Len(logged) <= 1

----------------------------------------------------------------------------
(* Vocabulary of the properties *)

Sent == pc = "done"
ShowDotfiles == env["DOTFILES"] = "true"
ShowIndex == env["NOINDEX"] # "true"
SpaMode == env["SPA"] = "true"
AuthConfigured == env["ENABLE_AUTH"] = "true"

\* The credentials of the request are those given to --auth (user:pass).
ValidCredentials == req.auth = [user_id |-> "user", password |-> "pass"]
Rejected == AuthConfigured /\ ~ValidCredentials

\* A segment of the request path begins with '.'.
DotSegment == \E i \in 1..Len(req.path) : req.path[i] # << >> /\ req.path[i][1] = 46
Gated == DotSegment /\ ~ShowDotfiles

\* What the request path names below the root, stated from the right end of
\* the path: a ".." cancels the nearest segment before it that is not yet
\* cancelled, and is dropped when there is none.
RECURSIVE Kept(_, _)
Kept(segs, skip) ==
  IF segs = << >> THEN << >>
  ELSE LET last == percent_decode(segs[Len(segs)])
           front == SubSeq(segs, 1, Len(segs) - 1)
       IN  IF last = SegParent THEN Kept(front, skip + 1)
           ELSE IF skip > 0 THEN Kept(front, skip - 1)
           ELSE Append(Kept(front, 0), last)
Goal == Kept(req.path, 0)
GoalIndex == Append(Goal, NameIndex)

Enumerated == \E op \in fsOps : op[1] = "read_dir"

\* The response sent is the one the dispatcher produced, status and body.
SentAsServed == res.status = served.status /\ res.body = served.body

----------------------------------------------------------------------------
(* C1 *)

\* C1 (as claimed): a request with a segment beginning with '.', dotfiles
\* hidden and not rejected by authentication, is answered 403 with an empty
\* body and without the headers of the dispatcher.
C1_Forbidden ==
  (Sent /\ DotSegment /\ ~ShowDotfiles /\ ~Rejected) =>
     /\ res.status = 403
     /\ res.body = EmptyBody
     /\ res.headers["content-type"] = NoHeader

----------------------------------------------------------------------------
(* C2 *)

NothingToServe ==
  IF ~exists(tree, Goal) THEN ~(SpaMode /\ is_file(tree, RootIndex))
  ELSE is_dir(tree, Goal) /\ ~is_file(tree, GoalIndex) /\ ~ShowIndex

----------------------------------------------------------------------------
(* C3 *)

\* C3: with --auth user:pass a request passes the gate exactly when its
\* credentials are user:pass; a wrong password, a wrong username or no
\* Authorization header is answered 401 with WWW-Authenticate; without
\* --auth every request passes.
C3_AuthGate ==
  Sent =>
     IF AuthConfigured
     THEN /\ ValidCredentials <=> fsOps # {}
          /\ ValidCredentials => res.status # 401
          /\ ~ValidCredentials =>
               res.status = 401 /\ res.headers["www-authenticate"] # NoHeader
     ELSE fsOps # {} /\ res.status # 401

C3_Witness ==
  /\ Sent /\ AuthConfigured
  /\ req.auth = [user_id |-> "user", password |-> "wrong"]
  /\ res.status = 401 /\ res.headers["www-authenticate"] = Realm

----------------------------------------------------------------------------
(* C4 *)

\* C4: a request that authentication rejects ends with 401 without the file
\* dispatcher having run: nothing is resolved, opened, enumerated or read for
\* it, and its response holds no bytes of a file or a listing.
C4_DeniedBeforeDispatch ==
  (Rejected /\ pc \notin {"idle", "auth"}) =>
     /\ pc \in {"logger", "done"}
     /\ res.status = 401
     /\ res.body = EmptyBody
     /\ fsOps = {}
     /\ target = << >>
     /\ served = NoResponse

C4_Witness ==
  /\ Sent /\ Rejected /\ req.auth = NoCreds
  /\ exists(tree, Goal) /\ is_file(tree, Goal)
  /\ res.status = 401 /\ fsOps = {}

----------------------------------------------------------------------------
(* C5 *)

\* C5 (as claimed): every response sent carries Cache-Control: no-store when
\* NOCACHE is set, and Access-Control-Allow-Origin with the configured origin
\* (or *) when CORS is on.
C5_HeadersOnEveryResponse ==
  Sent =>
     /\ env["NOCACHE"] = "true" => res.headers["cache-control"] = "no-store"
     /\ env["ENABLE_CORS"] = "true" =>
          res.headers["access-control-allow-origin"] = env["CORS"]

----------------------------------------------------------------------------
(* C6 *)

\* C6: for a request path that names nothing below the root, the dispatcher
\* answers 200 with the bytes of ROOT/index.html when SPA is on and that file
\* exists, and 404 with an empty body in every other case; that answer is
\* what is sent unless the dotfile filter empties it.
C6_SpaFallback ==
  (Sent /\ ~Rejected /\ ~exists(tree, Goal)) =>
     /\ IF SpaMode /\ is_file(tree, RootIndex)
        THEN served.status = 200 /\ served.body = FileBody(RootIndex)
        ELSE served.status = 404 /\ served.body = EmptyBody
     /\ ~Gated => SentAsServed

C6_Witness ==
  /\ Sent /\ ~exists(tree, Goal) /\ SpaMode /\ is_file(tree, RootIndex)
  /\ res.status = 200 /\ res.body = FileBody(RootIndex)

----------------------------------------------------------------------------
(* C7 *)

\* C7: for a requested directory that holds a regular file index.html, the
\* dispatcher answers with that file as text/html; charset=utf-8 and the
\* directory is not enumerated, with listings on or off.
C7_IndexHtml ==
  (Sent /\ ~Rejected /\ is_dir(tree, Goal) /\ is_file(tree, GoalIndex)) =>
     /\ served.status = 200
     /\ served.body = FileBody(GoalIndex)
     /\ served.headers["content-type"] = HtmlUtf8
     /\ ~Enumerated
     /\ ~Gated => SentAsServed /\ res.headers["content-type"] = HtmlUtf8

C7_Witness ==
  /\ Sent /\ ~ShowIndex /\ Goal = <<NameA>> /\ is_file(tree, GoalIndex)
  /\ res.status = 200 /\ res.body = FileBody(GoalIndex)
  /\ res.headers["content-type"] = HtmlUtf8

----------------------------------------------------------------------------
(* C8 *)

\* C8: for a requested directory without index.html, the dispatcher answers
\* 404 with an empty body and does not enumerate the directory when listings
\* are off, and answers 200 with a rendered HTML listing when they are on.
C8_ListingOrNotFound ==
  (Sent /\ ~Rejected /\ is_dir(tree, Goal) /\ ~is_file(tree, GoalIndex)) =>
     /\ IF ShowIndex
        THEN /\ served.status = 200
             /\ served.body.kind = "listing"
             /\ served.headers["content-type"] = HtmlUtf8
        ELSE /\ served.status = 404
             /\ served.body = EmptyBody
             /\ ~Enumerated
     /\ ~Gated => SentAsServed

C8_Witness ==
  /\ Sent /\ ~ShowIndex /\ AuthConfigured /\ Goal = <<NameA>> /\ ~is_file(tree, GoalIndex)
  /\ res.status = 404 /\ res.body = EmptyBody /\ ~Enumerated

----------------------------------------------------------------------------
(* C9 *)

IsDirRow(row) == "size" \notin DOMAIN row

\* Ascending by name, the modified time deciding between equal names.
InOrder(r1, r2) ==
  \/ BytesLess(r1.name, r2.name)
  \/ r1.name = r2.name /\ ~BytesLess(r2.modified, r1.modified)

\* C9: in every listing the directory rows come before the file rows, and the
\* rows of each group ascend by name, then modified time, whatever the order
\* in which the directory was enumerated.
C9_ListingOrder ==
  served.body.kind = "listing" =>
     LET rows == served.body.page.rows
     IN  \A i, j \in 1..Len(rows) :
           i < j => /\ IsDirRow(rows[j]) => IsDirRow(rows[i])
                    /\ IsDirRow(rows[i]) = IsDirRow(rows[j]) => InOrder(rows[i], rows[j])

\* The listing of the claim's example, with a second directory and a dotfile:
\* A, C, then .s, a, b.
C9_Witness ==
  /\ Sent /\ res.body.kind = "listing"
  /\ [i \in 1..Len(res.body.page.rows) |-> res.body.page.rows[i].name]
       = <<NameA, NameC, NameHidden, NameLowA, NameLowB>>

----------------------------------------------------------------------------
(* C10 *)

\* C10 (as claimed): every request that is answered leaves exactly one
\* access-log record, carrying the status that was sent.
C10_OneRecord == Sent => logged = <<res.status>>

----------------------------------------------------------------------------
(* C11 *)

----------------------------------------------------------------------------
(* C12 *)

\* A segment of the request path begins with '.' once it is percent-decoded.
DecodedDotSegment ==
  \E i \in 1..Len(req.path) : starts_with_dot(percent_decode(req.path[i]))

\* A component of a path below the root begins with '.'.
HiddenPath(p) == \E i \in 1..Len(p) : p[i] # << >> /\ p[i][1] = 46

\* C12 (as claimed): a request with a segment whose decoded name begins with
\* '.' (a leading dot written %2E included) is flagged as a dotfile request,
\* and with dotfiles hidden it is never answered with the content of a file
\* or directory whose path has a component beginning with '.'.
C12_DecodedDotfile ==
  (Sent /\ ~Rejected /\ ~ShowDotfiles /\ DecodedDotSegment) =>
     /\ isdotfile
     /\ res.body.kind = "file" => ~HiddenPath(res.body.path)
     /\ res.body.kind = "listing" => ~HiddenPath(target)

----------------------------------------------------------------------------
(* C13 *)

\* Building the document of the listing failed, in either of its two steps.
DocFailed == \E op \in fsOps : op[1] \in DocErrors
RenderFailed == \E op \in fsOps : op[1] = "render_error"

\* C13 (as claimed): whenever building the listing document fails, in
\* serializing the context or in rendering the template, the answer is 200
\* with the fixed literal body and never a 5xx response.
C13_RecoveredLocally ==
  (Sent /\ DocFailed /\ ~isdotfile) =>
     /\ res.status = 200
     /\ res.body = [kind |-> "error", text |-> "TEMPLATE RENDER ERROR"]

\* What holds of the two failures: only the failure of the render is answered
\* with the literal; the failure of the serialization is answered 500.
C13_RenderOnly ==
  (Sent /\ DocFailed /\ ~isdotfile) =>
     IF RenderFailed
     THEN res.status = 200 /\ res.body = RenderError.body
     ELSE res.status = 500 /\ res.body = InternalError.body /\ logged = <<500>>

----------------------------------------------------------------------------
(* C14 *)

\* An open found its file gone after the test that had found it.
OpenFailed == \E op \in fsOps : op[1] = "open_failed"

C14_WitnessIndex ==
  /\ Sent /\ res.status = 404 /\ ~svcErr
  /\ <<"open_failed", SubIndex>> \in fsOps

----------------------------------------------------------------------------
(* C15 *)

\* The children whose name, metadata or modified time could not be read.
Unreadable == {name \in Children(tree, target) : <<"entry_error", Append(target, name)>> \in fsOps}

\* The children a listing has to show.
Listable ==
  {name \in Children(tree, target) \ Unreadable : ShowDotfiles \/ ~starts_with_dot(name)}

====
